---------------------------- MODULE Spec2Model ----------------------------
(***************************************************************************)
(* State-machine model of the IMAT slot monitor (src/main.py):            *)
(* the session manager (initialize_session, maintain_session,             *)
(* get_page_content), the status extractor (analyze_slot_status), the     *)
(* change detector (check_for_changes), the monitor loop (run_monitor)    *)
(* and the two calls of main() the module makes.                          *)
(***************************************************************************)
EXTENDS Integers, Sequences, FiniteSets, TLC

(***************************************************************************)
(* Bounds of the model.                                                    *)
(***************************************************************************)
\* number of get_page_content() calls explored in the first monitor
MaxRequests == 5
\* number of candidate links a page offers to select_country / navigate
MaxLinks == 1
\* number of get_page_content() calls explored in the monitor that the second
\* call of main() creates
MaxRestartRequests == 1
\* number of interrupts that arrive inside soup.select during one analysis
MaxSwallowed == 1

(***************************************************************************)
(* Strings.  Python's `x in s` and s.lower() are modelled on a finite     *)
(* vocabulary of concrete strings: Lower(s) is s.lower(), and Sub(s) is   *)
(* the set of the substrings of s the program ever asks about.            *)
(***************************************************************************)
Lower(s) ==
    CASE s = "Status-Yellow" -> "status-yellow"
      [] s = "Chennai" -> "chennai"
      [] s = "CHENNAI centre" -> "chennai centre"
      [] s = "Delhi slots are currently Available" -> "delhi slots are currently available"
      [] s = "delhi: Full" -> "delhi: full"
      [] s = "delhi: Full, not Available" -> "delhi: full, not available"
      [] s = "Closed" -> "closed"
      [] s = "background:#00FF00" -> "background:#00ff00"
      [] s = "background: Yellow" -> "background: yellow"
      [] s = "Dark-Red" -> "dark-red"
      [] s = "https://www.nta.ac.in/IMAT" -> "https://www.nta.ac.in/imat"
      [] s = "https://www.nta.ac.in/Login" -> "https://www.nta.ac.in/login"
      [] s = "https://www.nta.ac.in/SignIn" -> "https://www.nta.ac.in/signin"
      [] s = "https://www.nta.ac.in/select-Country" -> "https://www.nta.ac.in/select-country"
      [] OTHER -> s

Sub(s) ==
    CASE s = "chennai-red-slot" -> {"chennai", "red"}
      [] s = "delhi-slot" -> {"delhi"}
      [] s = "status-green" -> {"status", "green"}
      [] s = "status-yellow" -> {"status", "yellow"}
      [] s = "chennai" -> {"chennai"}
      [] s = "delhi-row" -> {"delhi"}
      [] s = "Chennai" -> {"Chennai"}
      [] s = "CHENNAI centre" -> {"CHENNAI"}
      [] s = "chennai centre" -> {"chennai"}
      [] s = "Delhi slots are currently Available" -> {"Delhi", "Available"}
      [] s = "delhi slots are currently available" -> {"delhi", "available"}
      [] s = "delhi: Full" -> {"delhi", "Full"}
      [] s = "delhi: full" -> {"delhi", "full"}
      [] s = "delhi: Full, not Available" -> {"delhi", "Full", "Available"}
      [] s = "delhi: full, not available" -> {"delhi", "full", "available"}
      [] s = "delhi-green" -> {"delhi", "green"}
      [] s = "yellow" -> {"yellow"}
      [] s = "chennai limited" -> {"chennai", "limited"}
      [] s = "Closed" -> {"Closed"}
      [] s = "closed" -> {"closed"}
      [] s = "color: red" -> {"red", "color"}
      [] s = "background:#00ff00" -> {"#00ff00"}
      [] s = "background: yellow" -> {"yellow"}
      [] s = "red" -> {"red"}
      [] s = "green" -> {"green"}
      [] s = "dark-red" -> {"red"}
      [] s = "data-status" -> {"status"}
      [] s = "bgcolor" -> {"color"}
      [] s = "https://www.nta.ac.in/login" -> {"login"}
      [] s = "https://www.nta.ac.in/signin" -> {"signin"}
      [] s = "https://www.nta.ac.in/select-country" -> {"country"}
      [] OTHER -> {}

\* x in s
In(x, s) == x \in Sub(s)

\* s.find(x) + 1 for the status keywords: the position of the first
\* occurrence of x in s, 0 if there is none
Pos(x, s) ==
    CASE s = "delhi slots are currently available" /\ x = "available" -> 27
      [] s = "delhi: full" /\ x = "full" -> 8
      [] s = "delhi: full, not available" /\ x = "full" -> 8
      [] s = "delhi: full, not available" /\ x = "available" -> 18
      [] s = "chennai limited" /\ x = "limited" -> 9
      [] s = "closed" /\ x = "closed" -> 1
      [] OTHER -> 0

\* city.title(), city.upper()
Title(city) == IF city = "chennai" THEN "Chennai" ELSE "Delhi"
Upper(city) == IF city = "chennai" THEN "CHENNAI" ELSE "DELHI"

Min(S) == CHOOSE i \in S : \A j \in S : i <= j

(***************************************************************************)
(* Configuration set by __init__.                                          *)
(***************************************************************************)
cities == {"chennai", "delhi"}
imat_url == "https://www.nta.ac.in/IMAT"
\* the sub-page navigate_to_slot_page may discover
SlotPageUrl == "https://www.nta.ac.in/slots"
\* final URLs (after redirects) a GET of the target page can end on
FinalUrls == {imat_url, SlotPageUrl, "https://www.nta.ac.in/Login",
              "https://www.nta.ac.in/SignIn", "https://www.nta.ac.in/select-Country"}

(***************************************************************************)
(* Markup.  A body is the empty string, markup the parser rejects, or a   *)
(* parsed document: a sequence of elements in document order.             *)
(***************************************************************************)
Elem(cls, id, text, style, attrs) ==
    [class |-> cls, id |-> id, text |-> text, style |-> style, attrs |-> attrs]

ChennaiElems == {
    Elem(<<"chennai-red-slot">>, "", "", "", <<>>),
    Elem(<<"city", "status-green">>, "chennai", "", "", <<>>),
    Elem(<<"city">>, "", "Chennai", "background: Yellow", <<>>),
    Elem(<<>>, "", "CHENNAI centre", "", << <<"data-status", "Dark-Red">> >>),
    Elem(<<>>, "", "chennai limited", "", <<>>),
    Elem(<<"city">>, "row1", "", "", <<>>) }

DelhiElems == {
    Elem(<<"delhi-slot">>, "", "", "color: red", <<>>),
    Elem(<<"Status-Yellow">>, "delhi-row", "", "", <<>>),
    Elem(<<"delhi-slot">>, "", "", "background:#00FF00", <<>>),
    Elem(<<"delhi-slot">>, "", "", "", << <<"title", "red">>, <<"bgcolor", "green">> >>),
    Elem(<<>>, "", "Delhi slots are currently Available", "", <<>>),
    Elem(<<>>, "", "delhi: Full", "", <<>>),
    Elem(<<>>, "", "Closed", "", <<>>),
    Elem(<<>>, "", "delhi: Full, not Available", "", <<>>),
    Elem(<<"delhi-green">>, "", "", "color: red", << <<"data-status", "yellow">> >>) }

\* get_page_content's `return None`
NoContent == [kind |-> "None", elems |-> <<>>]
EmptyBody == [kind |-> "empty", elems |-> <<>>]
RejectedBody == [kind |-> "rejected", elems |-> <<>>]
Html(elems) == [kind |-> "html", elems |-> elems]

\* every body of the vocabulary
AllBodies ==
    {EmptyBody, RejectedBody, Html(<<>>)}
      \cup {Html(<<e>>) : e \in ChennaiElems \cup DelhiElems}
      \cup {Html(<<e, f>>) : e, f \in ChennaiElems \cup DelhiElems}

\* the bodies the target site serves to the monitor loop
Bodies ==
    {EmptyBody, RejectedBody, Html(<<>>),
     Html(<<Elem(<<"chennai-red-slot">>, "", "", "", <<>>),
            Elem(<<"delhi-slot">>, "", "", "color: red", <<>>)>>),
     Html(<<Elem(<<"city", "status-green">>, "chennai", "", "", <<>>),
            Elem(<<"Status-Yellow">>, "delhi-row", "", "", <<>>)>>),
     Html(<<Elem(<<>>, "", "CHENNAI centre", "", << <<"data-status", "Dark-Red">> >>),
            Elem(<<>>, "", "Delhi slots are currently Available", "", <<>>)>>)}

(***************************************************************************)
(* StatusExtractor: extract_status_from_element, detect_city_status,      *)
(* analyze_slot_status.                                                    *)
(***************************************************************************)
None == "None"
EmptyDict == [c \in {} |-> "unknown"]
\* no snapshot was extracted
NoSnapshot == [c \in {"None"} |-> "None"]

ColorIn(s) == \E color \in {"red", "green", "yellow"} : In(color, s)

extract_status_from_element(element) ==
    LET classHits == {i \in 1..Len(element.class) : ColorIn(Lower(element.class[i]))}
        style == Lower(element.style)
        attrHits == {i \in 1..Len(element.attrs) :
                        /\ \/ In("status", Lower(element.attrs[i][1]))
                           \/ In("color", Lower(element.attrs[i][1]))
                        /\ ColorIn(Lower(element.attrs[i][2]))}
    IN  IF classHits # {}
        THEN LET class_lower == Lower(element.class[Min(classHits)])
             IN  IF In("red", class_lower) THEN "red"
                 ELSE IF In("green", class_lower) THEN "green"
                 ELSE "yellow"
        ELSE IF element.style # "" /\ (In("red", style) \/ In("#ff0000", style)
                                        \/ In("rgb(255,0,0)", style))
        THEN "red"
        ELSE IF element.style # "" /\ (In("green", style) \/ In("#00ff00", style)
                                        \/ In("rgb(0,255,0)", style))
        THEN "green"
        ELSE IF element.style # "" /\ (In("yellow", style) \/ In("#ffff00", style)
                                        \/ In("rgb(255,255,0)", style))
        THEN "yellow"
        ELSE IF attrHits # {}
        THEN Lower(element.attrs[Min(attrHits)][2])
        ELSE None

\* soup.select(city_patterns[p]) matches element
Selects(p, element, city) ==
    CASE p = 1 -> \E i \in 1..Len(element.class) : In(city, element.class[i])
      [] p = 2 -> In(city, element.id)
      [] p = 3 -> In(Title(city), element.text)
      [] p = 4 -> In(Upper(city), element.text)

status_keywords == << <<"available", "green">>, <<"limited", "yellow">>,
                      <<"full", "red">>, <<"closed", "red">> >>

\* variant: the keyword scan is tried before the structural search
DetectKeywordsFirst(soup, city, swallowed) ==
    LET hits == {h \in ((1..4) \ swallowed) \X (1..Len(soup)) :
                    /\ Selects(h[1], soup[h[2]], city)
                    /\ extract_status_from_element(soup[h[2]]) # None}
        first == CHOOSE h \in hits : \A g \in hits :
                    h[1] < g[1] \/ (h[1] = g[1] /\ h[2] <= g[2])
        InText(w) == \E i \in 1..Len(soup) : In(w, Lower(soup[i].text))
        kw == {k \in 1..Len(status_keywords) : InText(status_keywords[k][1])}
    IN  IF InText(city) /\ kw # {} THEN status_keywords[Min(kw)][2]
        ELSE IF hits # {} THEN extract_status_from_element(soup[first[2]])
        ELSE "unknown"

\* lines 407-443.  `swallowed` is the set of patterns in whose try block a
\* KeyboardInterrupt was raised: the bare `except:` of line 425 catches it
\* and the loop goes on with the next pattern.
detect_city_status_except(soup, city, swallowed) ==
    LET hits == {h \in ((1..4) \ swallowed) \X (1..Len(soup)) :
                    /\ Selects(h[1], soup[h[2]], city)
                    /\ extract_status_from_element(soup[h[2]]) # None}
        first == CHOOSE h \in hits : \A g \in hits :
                    h[1] < g[1] \/ (h[1] = g[1] /\ h[2] <= g[2])
        InText(w) == \E i \in 1..Len(soup) : In(w, Lower(soup[i].text))
        kw == {k \in 1..Len(status_keywords) : InText(status_keywords[k][1])}
    IN  IF hits # {} THEN extract_status_from_element(soup[first[2]])
        ELSE IF InText(city) /\ kw # {} THEN status_keywords[Min(kw)][2]
        ELSE "unknown"

detect_city_status(soup, city) == detect_city_status_except(soup, city, {})

\* lines 385-405 applied to the body `markup`; `swallowed` are the pairs
\* <<city, pattern>> of the interrupts swallowed during this analysis
analyze_slot_status_except(markup, swallowed) ==
    IF markup.kind \in {"None", "empty"}
    THEN EmptyDict
    ELSE [city \in cities |->
            detect_city_status_except(markup.elems, city,
                                      {p \in 1..4 : <<city, p>> \in swallowed})]

analyze_slot_status(html_content) == analyze_slot_status_except(html_content, {})

\* the interrupts line 425 can swallow during one analysis
Swallows == {S \in SUBSET (cities \X (1..4)) : Cardinality(S) <= MaxSwallowed}

(***************************************************************************)
(* ChangeDetector: check_for_changes(current_status) against the retained *)
(* previous_state; the result is the set of cities whose change qualifies.*)
(***************************************************************************)
Get(dict, key, default) == IF key \in DOMAIN dict THEN dict[key] ELSE default

\* variant: any change to an open state qualifies, whatever the baseline
QualifiesAnyChange(previous_color, current_color) ==
    previous_color # current_color /\ current_color \in {"yellow", "green"}

\* line 485: previous_color == 'red' and current_color in ['yellow', 'green']
Qualifies(previous_color, current_color) ==
    previous_color = "red" /\ current_color \in {"yellow", "green"}

\* variant: a city without a retained entry counts as Red
BaselineRed(previous, current_status) ==
    {city \in DOMAIN current_status :
        Qualifies(Get(previous, city, "red"), current_status[city])}

\* lines 477-492
check_for_changes(previous, current_status) ==
    {city \in DOMAIN current_status :
        Qualifies(Get(previous, city, "unknown"), current_status[city])}


(***************************************************************************)
(* State.                                                                  *)
(***************************************************************************)
VARIABLES
    \* IMATSlotMonitor fields
    has_credentials,      \* username and password are both configured
    is_logged_in, country_selected, session_initialized,
    slot_booking_url, request_counter, previous_state,
    \* locals of run_monitor
    consecutive_failures, html_content, changes, wait_time,
    \* control: position in run_monitor / get_page_content / initialize_session,
    \* the call site initialize_session returns to, and its return value
    pc, init_caller, init_result,
    \* observation of the current cycle
    sent,                 \* notifications dispatched (send_telegram_message calls)
    log,                  \* initialize_session runs and GETs of this get_page_content call
    init_errors,          \* sub-steps of this initialize_session run in which an
                          \* HTTP call failed at transport level
    prev_at_start,        \* previous_state when the cycle began
    failures_at_start,    \* consecutive_failures when the cycle began
    counter_at_start,     \* request_counter when the cycle began
    current_status,       \* snapshot extracted in this cycle, None if none was
    fetch_failures,       \* consecutive cycles whose get_page_content returned None,
                          \* counted since the last returned body or failure alert
    failed_before,        \* fetch_failures when the cycle began
    last_snapshot,        \* snapshot extracted by the last cycle that extracted one
    login_seen,           \* HTTP calls of the last login_to_system run and whether
                          \* the page it read had a login form
    current_hour,         \* hour of day read at line 566, NoHour before it is read
    \* the process
    monitors              \* IMATSlotMonitor instances created so far (line 601)

session == <<has_credentials, is_logged_in, country_selected, session_initialized,
             slot_booking_url, request_counter>>
observed == <<sent, log, init_errors, prev_at_start, failures_at_start,
              counter_at_start, current_status, fetch_failures, failed_before,
              last_snapshot, login_seen, current_hour>>
vars == <<monitors, session, previous_state, consecutive_failures, html_content, changes,
          wait_time,
          pc, init_caller, init_result, observed>>

Hours == 0..23

NoHour == -1

\* login_to_system has not run, or made no HTTP call
NoLogin == [calls |-> <<>>, form |-> None]

Init ==
    /\ has_credentials \in BOOLEAN
    /\ is_logged_in = FALSE
    /\ country_selected = FALSE
    /\ session_initialized = FALSE
    /\ slot_booking_url = None
    /\ request_counter = 0
    /\ previous_state = EmptyDict
    /\ consecutive_failures = 0
    /\ html_content = NoContent
    /\ changes = {}
    /\ wait_time = 0
    /\ pc = "start"
    /\ init_caller = None
    /\ init_result = FALSE
    /\ sent = <<>>
    /\ log = <<>>
    /\ init_errors = {}
    /\ prev_at_start = EmptyDict
    /\ failures_at_start = 0
    /\ counter_at_start = 0
    /\ current_status = NoSnapshot
    /\ fetch_failures = 0
    /\ failed_before = 0
    /\ last_snapshot = EmptyDict
    /\ login_seen = NoLogin
    /\ current_hour = NoHour
    /\ monitors = 1

Msg(kind, about) == [kind |-> kind, cities |-> about]
Call(op, res) == [op |-> op, res |-> res]
Ev(op, site, res, expired) ==
    [op |-> op, site |-> site, res |-> res, expired |-> expired]

\* 'login' in response.url.lower() or 'signin' in ... or 'country' in ...
Expired(url) ==
    In("login", Lower(url)) \/ In("signin", Lower(url)) \/ In("country", Lower(url))

(***************************************************************************)
(* run_monitor: startup.                                                   *)
(***************************************************************************)
run_monitor ==
    /\ pc = "start"
    /\ UNCHANGED <<failed_before, last_snapshot, login_seen, current_hour>>
    /\ sent' = Append(sent, Msg("startup", {}))
    /\ consecutive_failures' = 0
    /\ pc' = "loop"
    /\ UNCHANGED <<monitors, session, previous_state, html_content, changes, wait_time,
                   init_caller,
                   init_result, log, init_errors, prev_at_start, failures_at_start,
                   counter_at_start, current_status, fetch_failures>>

(***************************************************************************)
(* get_page_content.                                                       *)
(***************************************************************************)
\* variant: the liveness check runs on every call
LivenessDueAlways(counter) == TRUE

\* line 325: the liveness check is due on every 5th call
LivenessDue(counter) == counter % 5 = 0

AfterInit(counter) == IF LivenessDue(counter) THEN "maintain" ELSE "target"

\* get_page_content returns value to run_monitor
Return(value) ==
    /\ html_content' = value
    /\ pc' = "process"

\* a call of initialize_session from the call site `site`
CallInit(site) ==
    /\ pc' = "login"
    /\ init_caller' = site
    /\ init_errors' = {}

RequestBound == IF monitors = 1 THEN MaxRequests ELSE MaxRestartRequests

\* top of a cycle: run_monitor calls get_page_content (lines 315-328)
get_page_content ==
    /\ pc = "loop"
    /\ failed_before' = fetch_failures
    /\ current_hour' = NoHour
    /\ UNCHANGED <<last_snapshot, login_seen>>
    /\ request_counter < RequestBound
    /\ request_counter' = request_counter + 1
    /\ prev_at_start' = previous_state
    /\ failures_at_start' = consecutive_failures
    /\ counter_at_start' = request_counter
    /\ current_status' = NoSnapshot
    /\ sent' = <<>>
    /\ log' = <<>>
    /\ html_content' = NoContent
    /\ changes' = {}
    /\ wait_time' = 0
    /\ IF ~session_initialized
       THEN CallInit("first")
       ELSE /\ pc' = AfterInit(request_counter')
            /\ UNCHANGED <<init_caller, init_errors>>
    /\ UNCHANGED <<monitors, has_credentials, is_logged_in, country_selected, session_initialized,
                   slot_booking_url, previous_state, consecutive_failures,
                   init_result, fetch_failures>>


(***************************************************************************)
(* initialize_session and its three sub-steps.  Each sub-step is one      *)
(* action; the pages it reads and the outcome of each HTTP call it makes  *)
(* are inputs.  An HTTP call ends "error" (a transport-level failure: the *)
(* call raises), or with a response.                                      *)
(***************************************************************************)
LinkOutcomes == {"error", "not200", "200"}
LinkSeqs == UNION {[1..n -> LinkOutcomes] : n \in 0..MaxLinks}

\* the links a `for link in links` loop requests: it stops at the first
\* request that raises or answers 200
Walked(links) ==
    LET decisive == {i \in 1..Len(links) : links[i] # "not200"}
    IN  IF decisive = {} THEN links ELSE SubSeq(links, 1, Min(decisive))

Ended(links) ==
    LET w == Walked(links) IN IF w = <<>> THEN "not200" ELSE w[Len(w)]

\* {step} if one of the calls failed at transport level
Failed(step, calls) ==
    IF \E i \in 1..Len(calls) : calls[i].res = "error" THEN {step} ELSE {}

Calls(op, outcomes) == [i \in 1..Len(outcomes) |-> Call(op, outcomes[i])]

\* variant: a page without a login form fails the login
LoginReturnsNeedsForm(credentials, get, form, post) ==
    IF ~credentials THEN TRUE
    ELSE IF get = "error" THEN FALSE
    ELSE IF ~form THEN FALSE
    ELSE post \in {"not200", "200 welcome"}

\* the return value of login_to_system (lines 116, 158, 161, 165, 167)
LoginReturns(credentials, get, form, post) ==
    IF ~credentials THEN TRUE
    ELSE IF get = "error" THEN FALSE
    ELSE IF ~form THEN TRUE
    ELSE post \in {"not200", "200 welcome"}

\* login_to_system (lines 112-167)
login_to_system ==
    /\ pc = "login"
    /\ \E get \in {"error", "ok"}, form \in BOOLEAN,
          post \in {"error", "not200", "200 welcome", "200 other"} :
          LET calls ==
                  IF ~has_credentials THEN <<>>
                  ELSE IF get = "error" THEN <<Call("login GET", "error")>>
                  ELSE IF ~form THEN <<Call("login GET", "ok")>>
                  ELSE <<Call("login GET", "ok"), Call("login POST", post)>>
              submitted == has_credentials /\ get = "ok" /\ form
              result == LoginReturns(has_credentials, get, form, post)
          IN  /\ init_errors' = init_errors \cup Failed("login", calls)
              /\ login_seen' = [calls |-> calls,
                                 form |-> IF ~(has_credentials /\ get = "ok")
                                          THEN None
                                          ELSE IF form THEN "found" ELSE "missing"]
              /\ is_logged_in' = (is_logged_in \/ (submitted /\ post = "200 welcome"))
              /\ IF result
                 THEN pc' = "country" /\ UNCHANGED init_result
                 ELSE pc' = "init_return" /\ init_result' = FALSE
    /\ UNCHANGED <<monitors, has_credentials, country_selected, session_initialized,
                   slot_booking_url, request_counter, previous_state,
                   consecutive_failures, html_content, changes, wait_time, init_caller,
                   sent, log, prev_at_start, failures_at_start, counter_at_start,
                   current_status, fetch_failures, failed_before, last_snapshot,
                   current_hour>>

\* one run of select_country (lines 169-229): whether one of its HTTP calls
\* failed at transport level, and whether it set country_selected
select_country_run(get, dropdown, post, india_links) ==
    LET method2 == get = "ok" /\ (~dropdown \/ post = "not200")
        calls ==
            <<Call("country GET", get)>>
              \o (IF get = "ok" /\ dropdown
                  THEN <<Call("country POST", post)>> ELSE <<>>)
              \o (IF method2
                  THEN Calls("country link GET", Walked(india_links))
                  ELSE <<>>)
        selected ==
            \/ get = "ok" /\ dropdown /\ post = "200"
            \/ method2 /\ Ended(india_links) = "200"
    IN  [failed |-> Failed("country", calls), selected |-> selected]

CountryRuns ==
    {select_country_run(get, dropdown, post, india_links) :
        get \in {"error", "ok"}, dropdown \in BOOLEAN,
        post \in LinkOutcomes, india_links \in LinkSeqs}

\* select_country (lines 169-229): always returns True
select_country ==
    /\ pc = "country"
    /\ login_seen' = NoLogin
    /\ \E run \in CountryRuns :
          /\ init_errors' = init_errors \cup run.failed
          /\ country_selected' = (country_selected \/ run.selected)
    /\ pc' = "navigate"
    /\ UNCHANGED <<monitors, has_credentials, is_logged_in, session_initialized,
                   slot_booking_url, request_counter, previous_state,
                   consecutive_failures, html_content, changes, wait_time, init_caller,
                   init_result, sent, log, prev_at_start, failures_at_start,
                   counter_at_start, current_status, fetch_failures,
                   failed_before, last_snapshot, current_hour>>

\* one run of navigate_to_slot_page (lines 231-266): whether one of its HTTP
\* calls failed at transport level, and whether it found a slot page
navigate_to_slot_page_run(get, slot_links) ==
    LET followed == IF get = "ok" THEN Walked(slot_links) ELSE <<>>
        found == get = "ok" /\ Ended(slot_links) = "200"
        calls == <<Call("navigate GET", get)>>
                   \o Calls("slot link GET", followed)
    IN  [failed |-> Failed("navigate", calls), found |-> found]

NavigateRuns ==
    {navigate_to_slot_page_run(get, slot_links) :
        get \in {"error", "ok"}, slot_links \in LinkSeqs}

\* navigate_to_slot_page (lines 231-266) and lines 282-286 of initialize_session
navigate_to_slot_page ==
    /\ pc = "navigate"
    /\ \E run \in NavigateRuns :
          /\ init_errors' = init_errors \cup run.failed
          /\ slot_booking_url' = IF run.found THEN SlotPageUrl ELSE imat_url
    /\ session_initialized' = TRUE
    /\ init_result' = TRUE
    /\ pc' = "init_return"
    /\ UNCHANGED <<monitors, has_credentials, is_logged_in, country_selected,
                   request_counter, previous_state,
                   consecutive_failures, html_content, changes, wait_time, init_caller,
                   sent, log, prev_at_start, failures_at_start, counter_at_start,
                   current_status, fetch_failures, failed_before, last_snapshot,
                   login_seen, current_hour>>

\* variant: the result of initialize_session is ignored
ContinueAlways(site, result, counter) ==
    CASE site = "first" -> AfterInit(counter)
      [] site = "maintain" -> "target"
      [] site = "redirect" -> "retry"
      [] site = "recovery" -> "recovery_get"

\* where get_page_content goes on when initialize_session returned `result`
\* to the call site `site`; "fail" is `return None`
Continue(site, result, counter) ==
    CASE site = "first" -> IF result THEN AfterInit(counter) ELSE "fail"
      [] site = "maintain" -> IF result THEN "target" ELSE "fail"
      [] site = "redirect" -> IF result THEN "retry" ELSE "fail"
      [] site = "recovery" -> IF result THEN "recovery_get" ELSE "fail"

\* initialize_session returns to its call site (lines 320, 305/326, 352, 369)
initialize_session_return ==
    /\ pc = "init_return"
    /\ login_seen' = NoLogin
    /\ UNCHANGED <<failed_before, last_snapshot, current_hour>>
    /\ log' = Append(log, Ev("initialize_session", init_caller,
                             IF init_result THEN "ok" ELSE "failed", FALSE))
    /\ init_errors' = {}
    /\ init_caller' = None
    /\ init_result' = FALSE
    /\ LET next == Continue(init_caller, init_result, request_counter)
       IN  IF next = "fail"
           THEN Return(NoContent)
           ELSE pc' = next /\ UNCHANGED html_content
    /\ UNCHANGED <<monitors, session, previous_state, consecutive_failures, changes, wait_time,
                   sent, prev_at_start, failures_at_start, counter_at_start,
                   current_status, fetch_failures>>


(***************************************************************************)
(* The GETs of get_page_content and maintain_session.  A GET ends "error" *)
(* (transport-level failure, the call raises), "http_error" (a response   *)
(* with an error status: raise_for_status raises) or "ok"; a response     *)
(* carries its final URL after redirects.                                  *)
(***************************************************************************)
GetOutcomes ==
    {<<"error", None>>} \cup ({"http_error", "ok"} \X FinalUrls)

\* variant: a detected expiry marks the session as not initialized
MaintainSessionForgets ==
    /\ pc = "maintain"
    /\ UNCHANGED <<failed_before, last_snapshot, login_seen, current_hour>>
    /\ \E o \in GetOutcomes :
          /\ log' = Append(log, Ev("GET", "liveness", o[1], o[1] # "error" /\ Expired(o[2])))
          /\ IF o[1] = "error"
             THEN /\ Return(NoContent)
                  /\ UNCHANGED <<init_caller, init_errors, session_initialized>>
             ELSE IF Expired(o[2])
             THEN /\ CallInit("maintain")
                  /\ session_initialized' = FALSE
                  /\ UNCHANGED html_content
             ELSE /\ pc' = "target"
                  /\ UNCHANGED <<html_content, init_caller, init_errors,
                                 session_initialized>>
    /\ UNCHANGED <<monitors, has_credentials, is_logged_in, country_selected,
                   slot_booking_url, request_counter, previous_state,
                   consecutive_failures, changes, wait_time,
                   init_result, sent, prev_at_start, failures_at_start,
                   counter_at_start, current_status, fetch_failures>>

\* maintain_session (lines 292-311): the response's status is not inspected
maintain_session ==
    /\ pc = "maintain"
    /\ UNCHANGED <<failed_before, last_snapshot, login_seen, current_hour>>
    /\ \E o \in GetOutcomes :
          /\ log' = Append(log, Ev("GET", "liveness", o[1], o[1] # "error" /\ Expired(o[2])))
          /\ IF o[1] = "error"
             THEN Return(NoContent) /\ UNCHANGED <<init_caller, init_errors>>
             ELSE IF Expired(o[2])
             THEN CallInit("maintain") /\ UNCHANGED html_content
             ELSE pc' = "target" /\ UNCHANGED <<html_content, init_caller, init_errors>>
    /\ UNCHANGED <<monitors, session, previous_state, consecutive_failures, changes, wait_time,
                   init_result, sent, prev_at_start, failures_at_start,
                   counter_at_start, current_status, fetch_failures>>

\* lines 330-361: the GET of the target page
fetch_target ==
    /\ pc = "target"
    /\ UNCHANGED <<failed_before, last_snapshot, login_seen, current_hour>>
    /\ \E o \in GetOutcomes, body \in Bodies :
          /\ log' = Append(log, Ev("GET", "target", o[1], o[1] # "error" /\ Expired(o[2])))
          /\ IF o[1] # "ok"
             THEN CallInit("recovery") /\ UNCHANGED html_content
             ELSE IF Expired(o[2])
             THEN CallInit("redirect") /\ UNCHANGED html_content
             ELSE Return(body) /\ UNCHANGED <<init_caller, init_errors>>
    /\ UNCHANGED <<monitors, session, previous_state, consecutive_failures, changes, wait_time,
                   init_result, sent, prev_at_start, failures_at_start,
                   counter_at_start, current_status, fetch_failures>>

\* lines 354-361: the retried GET after re-initialization; its final URL is
\* not inspected
fetch_retry ==
    /\ pc = "retry"
    /\ UNCHANGED <<failed_before, last_snapshot, login_seen, current_hour>>
    /\ \E o \in GetOutcomes, body \in Bodies :
          /\ log' = Append(log, Ev("GET", "retry", o[1], o[1] # "error" /\ Expired(o[2])))
          /\ IF o[1] # "ok"
             THEN CallInit("recovery") /\ UNCHANGED html_content
             ELSE Return(body) /\ UNCHANGED <<init_caller, init_errors>>
    /\ UNCHANGED <<monitors, session, previous_state, consecutive_failures, changes, wait_time,
                   init_result, sent, prev_at_start, failures_at_start,
                   counter_at_start, current_status, fetch_failures>>

\* variant: a failed retried GET of the recovery starts another recovery
FetchRecoveryAgain ==
    /\ pc = "recovery_get"
    /\ UNCHANGED <<failed_before, last_snapshot, login_seen, current_hour>>
    /\ \E o \in GetOutcomes, body \in Bodies :
          /\ log' = Append(log, Ev("GET", "recovery", o[1], o[1] # "error" /\ Expired(o[2])))
          /\ IF o[1] = "ok"
             THEN Return(body) /\ UNCHANGED <<init_caller, init_errors>>
             ELSE CallInit("recovery") /\ UNCHANGED html_content
    /\ UNCHANGED <<monitors, session, previous_state, consecutive_failures, changes, wait_time,
                   init_result, sent, prev_at_start, failures_at_start,
                   counter_at_start, current_status, fetch_failures>>

\* lines 370-379: the retried GET of the recovery
fetch_recovery ==
    /\ pc = "recovery_get"
    /\ UNCHANGED <<failed_before, last_snapshot, login_seen, current_hour>>
    /\ \E o \in GetOutcomes, body \in Bodies :
          /\ log' = Append(log, Ev("GET", "recovery", o[1], o[1] # "error" /\ Expired(o[2])))
          /\ Return(IF o[1] = "ok" THEN body ELSE NoContent)
    /\ UNCHANGED <<monitors, session, previous_state, consecutive_failures, changes, wait_time,
                   init_caller, init_result, init_errors, sent,
                   prev_at_start,
                   failures_at_start, counter_at_start, current_status,
                   fetch_failures>>


(***************************************************************************)
(* run_monitor: the rest of a cycle (lines 534-588).                       *)
(***************************************************************************)
FailureThreshold == 3
BusinessWait == 180
OffHoursWait == 300
Cooldown == 120

\* `if html_content:` -- None and the empty string are falsy
Truthy(content) == content.kind \notin {"None", "empty"}

\* variant: one message per changed city
OneAlertPerCity(changed) ==
    IF changed = cities
    THEN <<Msg("slot", {"chennai"}), Msg("slot", {"delhi"})>>
    ELSE IF changed # {} THEN <<Msg("slot", changed)>> ELSE <<>>

\* lines 544-548 with format_notification_message: the messages dispatched
\* for the list of changes
SlotAlerts(changed) ==
    IF changed # {} THEN <<Msg("slot", changed)>> ELSE <<>>

\* the snapshots analyze_slot_status can extract from each body, over the
\* interrupts swallowed meanwhile
Extractions ==
    {<<body, analyze_slot_status_except(body, swallowed)>> :
        body \in Bodies, swallowed \in Swallows}

\* variant: a failed fetch discards the retained snapshot
FetchFailedForgets ==
    /\ IF consecutive_failures + 1 >= FailureThreshold
       THEN /\ sent' = Append(sent, Msg("failure", {}))
            /\ consecutive_failures' = 0
       ELSE /\ consecutive_failures' = consecutive_failures + 1
            /\ UNCHANGED sent
    /\ previous_state' = EmptyDict
    /\ pc' = "wait"
    /\ UNCHANGED <<current_status, changes, last_snapshot>>

\* variant: the counter is not reset after the failure alert
FetchFailedNoReset ==
    /\ consecutive_failures' = consecutive_failures + 1
    /\ IF consecutive_failures + 1 >= FailureThreshold
       THEN sent' = Append(sent, Msg("failure", {}))
       ELSE UNCHANGED sent
    /\ pc' = "wait"
    /\ UNCHANGED <<previous_state, current_status, changes, last_snapshot>>

\* lines 555-563: the branch of a cycle whose html_content is falsy
fetch_failed ==
    /\ IF consecutive_failures + 1 >= FailureThreshold
       THEN /\ sent' = Append(sent, Msg("failure", {}))
            /\ consecutive_failures' = 0
       ELSE /\ consecutive_failures' = consecutive_failures + 1
            /\ UNCHANGED sent
    /\ pc' = "wait"
    /\ UNCHANGED <<previous_state, current_status, changes, last_snapshot>>

\* lines 534-563.  BeautifulSoup either raises on markup its parser rejects
\* or parses it as a document without elements, depending on the build.
process ==
    /\ pc = "process"
    /\ UNCHANGED <<failed_before, login_seen, current_hour>>
    /\ fetch_failures' = IF html_content = NoContent THEN fetch_failures + 1 ELSE 0
    /\ IF Truthy(html_content)
       THEN \/ /\ html_content.kind = "rejected"
               /\ pc' = "error"
               /\ UNCHANGED <<previous_state, consecutive_failures, sent,
                              current_status, changes, last_snapshot>>
            \/ \E x \in Extractions :
               LET status == x[2]
               IN  /\ x[1] = html_content
                   /\ current_status' = status
                   /\ consecutive_failures' = 0
                   /\ changes' = check_for_changes(previous_state, status)
                   /\ sent' = sent \o SlotAlerts(changes')
                   /\ previous_state' = status
                   /\ last_snapshot' = status
                   /\ pc' = "wait"
       ELSE fetch_failed
    /\ log' = <<>>
    /\ UNCHANGED <<monitors, session, html_content, wait_time, init_caller, init_result,
                   init_errors, prev_at_start, failures_at_start,
                   counter_at_start>>

\* variant: the boundary hours 9 and 18 count as off hours
IntervalExclusive(hour) ==
    IF 9 < hour /\ hour < 18 THEN BusinessWait ELSE OffHoursWait

\* lines 569-573: the interval selected at the hour read
Interval(hour) ==
    IF 9 <= hour /\ hour <= 18 THEN BusinessWait ELSE OffHoursWait

\* lines 565-577: interval selection and sleep
sleep ==
    /\ pc = "wait"
    /\ failed_before' = 0
    /\ UNCHANGED <<last_snapshot, login_seen>>
    /\ \E hour \in Hours :
          /\ current_hour' = hour
          /\ wait_time' = Interval(hour)
    /\ fetch_failures' = IF \E i \in 1..Len(sent) : sent[i].kind = "failure"
                         THEN 0 ELSE fetch_failures
    /\ pc' = "loop"
    /\ prev_at_start' = EmptyDict
    /\ current_status' = NoSnapshot
    /\ failures_at_start' = 0
    /\ counter_at_start' = 0
    /\ UNCHANGED <<monitors, session, previous_state, consecutive_failures, html_content,
                   init_caller, init_result, sent, log, init_errors>>
    /\ changes' = {}

\* variant: the error is not reported
HandleErrorSilently ==
    /\ pc = "error"
    /\ wait_time' = Cooldown
    /\ pc' = "cooldown"
    /\ UNCHANGED <<monitors, session, previous_state, consecutive_failures,
                   html_content, changes, init_caller, init_result, observed>>

\* lines 584-588: an error raised inside the cycle is reported, then the
\* loop cools down
handle_error ==
    /\ pc = "error"
    /\ UNCHANGED <<failed_before, last_snapshot, login_seen, current_hour>>
    /\ sent' = Append(sent, Msg("error", {}))
    /\ wait_time' = Cooldown
    /\ pc' = "cooldown"
    /\ UNCHANGED <<monitors, session, previous_state, consecutive_failures, html_content,
                   changes, init_caller, init_result, log, init_errors, prev_at_start,
                   failures_at_start, counter_at_start, current_status,
                   fetch_failures>>

resume ==
    /\ pc = "cooldown"
    /\ pc' = "loop"
    /\ UNCHANGED <<monitors, session, previous_state, consecutive_failures, html_content,
                   changes, wait_time, init_caller, init_result, observed>>

\* lines 579-583: KeyboardInterrupt.  Raised inside the try block it is
\* caught, the shutdown notification is sent and run_monitor returns
\* ("stopped"); raised inside the `except Exception` handler (lines 585-588)
\* it leaves run_monitor uncaught and ends the process ("killed").
InTry == {"loop", "login", "country", "navigate", "init_return", "maintain",
          "target", "retry", "recovery_get", "process", "wait"}

interrupt ==
    /\ pc \in InTry \cup {"error", "cooldown"}
    /\ failed_before' = 0
    /\ login_seen' = NoLogin
    /\ current_hour' = NoHour
    /\ UNCHANGED <<last_snapshot>>
    /\ sent' = IF pc \in InTry THEN Append(sent, Msg("stop", {})) ELSE sent
    /\ pc' = IF pc \in InTry THEN "stopped" ELSE "killed"
    \* run_monitor is left: its locals and the observation of the cycle end
    /\ consecutive_failures' = 0
    /\ html_content' = NoContent
    /\ changes' = {}
    /\ wait_time' = 0
    /\ init_caller' = None
    /\ init_result' = FALSE
    /\ log' = <<>>
    /\ init_errors' = {}
    /\ prev_at_start' = EmptyDict
    /\ current_status' = NoSnapshot
    /\ failures_at_start' = 0
    /\ counter_at_start' = 0
    /\ fetch_failures' = 0
    /\ UNCHANGED <<monitors, session, previous_state>>

\* line 634: the module calls main() a second time once the call of line 605
\* has returned; it creates a new IMATSlotMonitor (line 601, __init__) and
\* starts run_monitor on it (line 602).  The environment is the same.
main ==
    /\ pc = "stopped"
    /\ monitors = 1
    /\ monitors' = monitors + 1
    /\ is_logged_in' = FALSE
    /\ country_selected' = FALSE
    /\ session_initialized' = FALSE
    /\ slot_booking_url' = None
    /\ request_counter' = 0
    /\ previous_state' = EmptyDict
    /\ last_snapshot' = EmptyDict
    /\ pc' = "start"
    /\ UNCHANGED <<has_credentials, consecutive_failures, html_content, changes,
                   wait_time, init_caller, init_result, sent, log, init_errors,
                   prev_at_start, failures_at_start, counter_at_start,
                   current_status, fetch_failures, failed_before, login_seen,
                   current_hour>>

Next ==
    \/ main
    \/ run_monitor
    \/ get_page_content
    \/ login_to_system
    \/ select_country
    \/ navigate_to_slot_page
    \/ initialize_session_return
    \/ maintain_session
    \/ fetch_target
    \/ fetch_retry
    \/ fetch_recovery
    \/ process
    \/ sleep
    \/ handle_error
    \/ resume
    \/ interrupt

Spec == Init /\ [][Next]_vars



(***************************************************************************)
(* get_page_content on its own: one monitor calls it again and again, as  *)
(* run_monitor does at line 532; what the loop does with the result is    *)
(* left out, since lines 534-577 assign no field of the session manager.  *)
(* No interrupt arrives, and every HTTP call returns or fails: a step of  *)
(* the call that can be taken is eventually taken.                         *)
(***************************************************************************)
CallStep ==
    \/ login_to_system
    \/ select_country
    \/ navigate_to_slot_page
    \/ initialize_session_return
    \/ maintain_session
    \/ fetch_target
    \/ fetch_retry
    \/ fetch_recovery

\* lines 534-577 as seen by the session manager: the loop comes back to its
\* top with the session as get_page_content left it
next_cycle ==
    /\ pc = "process"
    /\ pc' = "loop"
    /\ UNCHANGED <<monitors, session, previous_state, consecutive_failures,
                   html_content, changes, wait_time, init_caller, init_result,
                   observed>>

NextCalls ==
    \/ run_monitor
    \/ get_page_content
    \/ CallStep
    \/ next_cycle

SpecCalls == Init /\ [][NextCalls]_vars /\ WF_vars(CallStep)

(***************************************************************************)
(* check_for_changes on its own: the retained snapshot and the current    *)
(* snapshot are drawn from every pair of snapshots over the configured    *)
(* cities, and the detector is applied once.                               *)
(***************************************************************************)
StatusValues == {"red", "yellow", "green", "unknown"}
Snapshots == [cities -> StatusValues]

InitDiff ==
    /\ has_credentials = FALSE
    /\ is_logged_in = FALSE
    /\ country_selected = FALSE
    /\ session_initialized = FALSE
    /\ slot_booking_url = None
    /\ request_counter = 0
    /\ previous_state \in Snapshots \cup {EmptyDict}
    /\ consecutive_failures = 0
    /\ html_content = NoContent
    /\ changes = {}
    /\ wait_time = 0
    /\ pc = "diff"
    /\ init_caller = None
    /\ init_result = FALSE
    /\ sent = <<>>
    /\ log = <<>>
    /\ init_errors = {}
    /\ prev_at_start = EmptyDict
    /\ failures_at_start = 0
    /\ counter_at_start = 0
    /\ current_status \in Snapshots
    /\ fetch_failures = 0
    /\ failed_before = 0
    /\ last_snapshot = EmptyDict
    /\ login_seen = NoLogin
    /\ current_hour = NoHour
    /\ monitors = 1

\* line 542: changes = self.check_for_changes(current_status)
diff ==
    /\ pc = "diff"
    /\ changes' = check_for_changes(previous_state, current_status)
    /\ pc' = "diffed"
    /\ UNCHANGED <<monitors, session, previous_state, consecutive_failures, html_content,
                   wait_time, init_caller, init_result, observed>>

NextDiff == diff

SpecDiff == InitDiff /\ [][NextDiff]_vars

(***************************************************************************)
(* analyze_slot_status on its own: the body is drawn from every body of   *)
(* the vocabulary, and the extractor is applied once.  No interrupt        *)
(* arrives meanwhile.                                                      *)
(***************************************************************************)
InitAnalyze ==
    /\ has_credentials = FALSE
    /\ is_logged_in = FALSE
    /\ country_selected = FALSE
    /\ session_initialized = FALSE
    /\ slot_booking_url = None
    /\ request_counter = 0
    /\ previous_state = EmptyDict
    /\ consecutive_failures = 0
    /\ html_content \in AllBodies
    /\ changes = {}
    /\ wait_time = 0
    /\ pc = "analyze"
    /\ init_caller = None
    /\ init_result = FALSE
    /\ sent = <<>>
    /\ log = <<>>
    /\ init_errors = {}
    /\ prev_at_start = EmptyDict
    /\ failures_at_start = 0
    /\ counter_at_start = 0
    /\ current_status = NoSnapshot
    /\ fetch_failures = 0
    /\ failed_before = 0
    /\ last_snapshot = EmptyDict
    /\ login_seen = NoLogin
    /\ current_hour = NoHour
    /\ monitors = 1

\* line 535: current_status = self.analyze_slot_status(html_content); the
\* parser either raises on markup it rejects or parses it as a document
\* without elements
analyze ==
    /\ pc = "analyze"
    /\ \/ /\ html_content.kind = "rejected"
          /\ pc' = "raised"
          /\ UNCHANGED current_status
       \/ /\ current_status' = analyze_slot_status(html_content)
          /\ pc' = "analyzed"
    /\ UNCHANGED <<monitors, session, previous_state, consecutive_failures,
                   html_content, changes, wait_time, init_caller, init_result,
                   sent, log, init_errors, prev_at_start, failures_at_start,
                   counter_at_start, fetch_failures, failed_before,
                   last_snapshot, login_seen, current_hour>>

NextAnalyze == analyze

SpecAnalyze == InitAnalyze /\ [][NextAnalyze]_vars

(***************************************************************************)
(* Properties.                                                             *)
(***************************************************************************)
\* positions of get_page_content between its call and its return
InCall == {"login", "country", "navigate", "init_return", "maintain", "target",
           "retry", "recovery_get"}

\* get_page_content has returned and the cycle has not yet used the result
Returned == pc = "process"

\* the cycle ran to its end (the sleep at line 577 is next)
CycleEnd == pc = "wait"

FetchSucceeded == html_content # NoContent

SlotMsgs == SelectSeq(sent, LAMBDA m : m.kind = "slot")
FailureMsgs == SelectSeq(sent, LAMBDA m : m.kind = "failure")

\* cities Red in the snapshot retained at the start of the cycle and Yellow
\* or Green in the snapshot extracted in the cycle
RedToOpen ==
    {c \in cities :
        /\ FetchSucceeded
        /\ c \in DOMAIN prev_at_start
        /\ c \in DOMAIN current_status
        /\ prev_at_start[c] = "red"
        /\ current_status[c] \in {"yellow", "green"}}

\* C1: a cycle that runs to its end has dispatched exactly one slot alert,
\* covering every qualifying city, if its fetch succeeded and some city is
\* Red in the retained snapshot and Yellow or Green in the snapshot
\* extracted in the cycle; otherwise it has dispatched none.  No slot alert
\* is dispatched before the result of the fetch is processed, nor in a
\* cycle that ends in an error.
C1_OneSlotAlertPerQualifyingCycle ==
    /\ CycleEnd =>
          SlotMsgs = IF RedToOpen # {} THEN <<Msg("slot", RedToOpen)>> ELSE <<>>
    /\ pc \in InCall \cup {"process", "error", "cooldown"} => SlotMsgs = <<>>

C1_Witness ==
    CycleEnd /\ RedToOpen = cities /\ Len(SlotMsgs) = 1

\* C2: check_for_changes(previous, current) contains city c if and only if
\* previous[c] is Red and current[c] is Yellow or Green; the difference of
\* a snapshot with itself is empty.
C2_DiffIffRedToOpen ==
    pc = "diffed" =>
        /\ \A c \in cities :
              c \in changes <=>
                  /\ c \in DOMAIN previous_state
                  /\ previous_state[c] = "red"
                  /\ current_status[c] \in {"yellow", "green"}
        /\ previous_state = current_status => changes = {}

C2_Witness ==
    /\ pc = "diffed"
    /\ changes = {"delhi"}
    /\ previous_state["chennai"] = "red"
    /\ current_status["chennai"] = "red"

\* C3 (as claimed): after every cycle whose fetch returned a body, the
\* retained snapshot is the snapshot of that body, city by city (a city
\* without an entry counts as Unknown).
C3_PreviousReplacedAfterSuccess ==
    CycleEnd /\ FetchSucceeded =>
        \A c \in cities :
            Get(previous_state, c, "unknown")
                = Get(analyze_slot_status(html_content), c, "unknown")

\* C4 (as claimed): a cycle dispatches a failure alert if and only if its
\* fetch failed and it is the third consecutive failed fetch since the last
\* cycle with a body or the last failure alert; the counter is 0 after it.
C4_FailureAlertOnThirdFailedFetch ==
    CycleEnd =>
        /\ Len(FailureMsgs) = 1 <=> (~FetchSucceeded /\ fetch_failures = 3)
        /\ Len(FailureMsgs) <= 1
        /\ Len(FailureMsgs) = 1 => consecutive_failures = 0

\* C5 (as claimed): after every cycle in which get_page_content returned a
\* body, whatever its content, consecutive_failures is 0.
C5_BodyResetsFailures ==
    CycleEnd /\ FetchSucceeded => consecutive_failures = 0

\* C6: a cycle that starts with an empty retained snapshot dispatches no
\* slot alert, whatever snapshot it extracts.
C6_NoAlertOnEmptyBaseline ==
    pc \in {"process", "wait", "error", "cooldown"} /\ prev_at_start = EmptyDict
        => SlotMsgs = <<>>

C6_Witness ==
    /\ CycleEnd
    /\ prev_at_start = EmptyDict
    /\ current_status # NoSnapshot
    /\ current_status["chennai"] = "green"
    /\ current_status["delhi"] = "yellow"


IsGet(e, site) == e.op = "GET" /\ e.site = site
IsInit(e, site) == e.op = "initialize_session" /\ e.site = site

\* the GET answered without an error and its final URL shows an expiry
SawExpiry(e) == e.res = "ok" /\ e.expired

\* C7: when the GET of the target page succeeds and its final URL shows an
\* expiry, initialize_session runs next, exactly once before the retried
\* GET; the retried GET is issued only after that run succeeded, and when
\* the run failed get_page_content returns None without a retried GET.
C7_OneReinitBeforeRetry ==
    \A i \in 1..Len(log) :
        /\ (IsGet(log[i], "target") /\ SawExpiry(log[i])) =>
              /\ i = Len(log) => pc \in {"login", "country", "navigate", "init_return"}
                                    /\ init_caller = "redirect"
              /\ i < Len(log) => IsInit(log[i + 1], "redirect")
              /\ (i + 1 = Len(log) /\ log[i + 1].res = "failed") =>
                    Returned /\ ~FetchSucceeded
              /\ (i + 1 = Len(log) /\ log[i + 1].res = "ok") => pc = "retry"
              /\ i + 1 < Len(log) =>
                    log[i + 1].res = "ok" /\ IsGet(log[i + 2], "retry")
        /\ IsGet(log[i], "retry") =>
              /\ i > 2
              /\ IsInit(log[i - 1], "redirect") /\ log[i - 1].res = "ok"
              /\ IsGet(log[i - 2], "target") /\ SawExpiry(log[i - 2])

C7_Witness ==
    /\ Returned
    /\ \E i \in 1..Len(log) : IsGet(log[i], "retry") /\ log[i].res = "ok"
    /\ FetchSucceeded

\* C8 (as claimed): when get_page_content returns None after one of its
\* GETs (liveness check, target, retry) failed at transport level, exactly
\* one recovery (initialize_session, then the retried GET if it succeeded)
\* was attempted in that call.
C8_TransportFailureRecoversOnce ==
    (/\ Returned
     /\ ~FetchSucceeded
     /\ \E i \in 1..Len(log) :
           /\ log[i].op = "GET"
           /\ log[i].site \in {"liveness", "target", "retry"}
           /\ log[i].res = "error")
        => /\ Cardinality({i \in 1..Len(log) : IsInit(log[i], "recovery")}) = 1
           /\ \A i \in 1..Len(log) :
                 (IsInit(log[i], "recovery") /\ log[i].res = "ok") =>
                     i < Len(log) /\ IsGet(log[i + 1], "recovery")

\* C9 (as claimed): a run of initialize_session in which an HTTP call of
\* any sub-step failed at transport level returns False and does not set
\* session_initialized.
C9_TransportFailureAbortsInit ==
    (pc = "init_return" /\ init_errors # {}) =>
        /\ ~init_result
        /\ init_caller = "first" => ~session_initialized

\* C10: get_page_content increments request_counter by exactly one; the
\* liveness check runs in a call if and only if the incremented counter is
\* a multiple of 5 and the call got past initialization; when the check
\* sees an expiry, initialize_session runs before the GET of the target
\* page, which is issued only if that run succeeded.
PastInitialization ==
    ~(log # <<>> /\ IsInit(log[1], "first") /\ log[1].res = "failed")

C10_CounterAndLivenessCheck ==
    /\ pc \in InCall \cup {"process", "wait"} =>
          request_counter = counter_at_start + 1
    /\ Returned =>
          ((\E i \in 1..Len(log) : IsGet(log[i], "liveness"))
              <=> (request_counter % 5 = 0 /\ PastInitialization))
    /\ \A i \in 1..Len(log) :
          (IsGet(log[i], "liveness") /\ log[i].res # "error" /\ log[i].expired) =>
              /\ i < Len(log) => IsInit(log[i + 1], "maintain")
              /\ i + 1 < Len(log) =>
                    log[i + 1].res = "ok" /\ IsGet(log[i + 2], "target")
    /\ \A i \in 1..Len(log) :
          IsGet(log[i], "target") =>
              \A j \in 1..(i - 1) :
                  (IsGet(log[j], "liveness") /\ log[j].res # "error" /\ log[j].expired)
                      => \E k \in (j + 1)..(i - 1) : IsInit(log[k], "maintain")

C10_Witness ==
    /\ Returned
    /\ FetchSucceeded
    /\ \E i \in 1..Len(log) :
          /\ IsGet(log[i], "liveness") /\ log[i].expired
          /\ i + 1 < Len(log)
          /\ IsGet(log[i + 2], "target")


\* the monitor loop has ended
LoopEnded == pc \in {"stopped", "killed"}

\* C11 (as claimed): whenever the monitor loop has ended, the last
\* notification dispatched is the shutdown notification, wherever in the
\* cycle, the sleep or the cooldown the interrupt arrived.
C11_ShutdownNoticeBeforeLoopEnds ==
    LoopEnded => sent # <<>> /\ sent[Len(sent)].kind = "stop"

\* C12 (as claimed): analyze_slot_status never raises and returns a
\* snapshot with exactly one entry for each configured city; for empty
\* markup and for markup the parser rejects every entry is Unknown.
C12_AnalyzeTotalAndFullyPopulated ==
    pc \in {"analyzed", "raised"} =>
        /\ pc = "analyzed"
        /\ DOMAIN current_status = cities
        /\ html_content.kind \in {"empty", "rejected"} =>
              \A c \in cities : current_status[c] = "unknown"

\* C13 (as claimed): every value of a snapshot returned by
\* analyze_slot_status is one of red, yellow, green, unknown.
C13_SnapshotValuesAreStatusValues ==
    pc = "analyzed" =>
        \A c \in DOMAIN current_status : current_status[c] \in StatusValues

\* C14 (as claimed): one IMATSlotMonitor is created in the life of the
\* process, and nothing is dispatched after the shutdown notification: no
\* new session, no further monitor loop, fetch or notification follows it.
C14_OneMonitorPerProcess ==
    /\ monitors = 1
    /\ \A i \in 1..Len(sent) : sent[i].kind = "stop" => i = Len(sent)

\* C15: a run of login_to_system without configured credentials, or on an
\* entry page without a login form, returns True: initialize_session goes
\* on to select_country, is_logged_in keeps its value and no login POST is
\* sent; without credentials the run makes no HTTP call at all.
C15_LoginOptional ==
    [][(/\ pc = "login"
        /\ pc' \notin {"login", "stopped"}
        /\ ~has_credentials \/ login_seen'.form = "missing")
          => /\ pc' = "country"
             /\ is_logged_in' = is_logged_in
             /\ \A i \in 1..Len(login_seen'.calls) :
                   login_seen'.calls[i].op # "login POST"
             /\ ~has_credentials => login_seen'.calls = <<>>]_vars

C15_Witness ==
    /\ pc = "country"
    /\ has_credentials
    /\ login_seen.form = "missing"
    /\ login_seen.calls = <<Call("login GET", "ok")>>
    /\ ~is_logged_in

\* C16: after the sleep that ends a cycle, the interval slept is 180 seconds
\* if the hour read before it is one of 9..18 and 300 seconds otherwise,
\* for every hour of the day; every cycle that runs to its end reads the
\* hour and sleeps so.
C16_IntervalByHour ==
    /\ []((pc = "loop" /\ current_hour # NoHour) =>
            /\ current_hour \in 0..23
            /\ wait_time = IF current_hour \in 9..18 THEN 180 ELSE 300)
    /\ [][CycleEnd /\ pc' \notin {"wait", "stopped"} =>
              pc' = "loop" /\ current_hour' # NoHour]_vars

C16_Witness ==
    pc = "loop" /\ current_hour = 18 /\ wait_time = 180

\* C17: an error raised inside a cycle is followed by the dispatch of the
\* error notification and a cooldown of 120 seconds, not the interval of
\* 180 or 300 seconds; after the cooldown the loop starts its next cycle
\* with a new call of get_page_content (unless an interrupt arrives).
C17_ErrorThenCooldownThenNextCycle ==
    /\ [](pc = "cooldown" =>
            /\ sent # <<>>
            /\ sent[Len(sent)].kind = "error"
            /\ wait_time = 120)
    /\ [][/\ (pc = "error" /\ pc' \notin {"error", "killed"}) =>
                pc' = "cooldown" /\ sent' = Append(sent, Msg("error", {}))
          /\ (pc = "cooldown" /\ pc' \notin {"cooldown", "killed"}) =>
                pc' = "loop" /\ wait_time' = 120 /\ sent' = sent
          /\ (pc = "loop" /\ pc' \notin {"loop", "stopped"}) =>
                /\ request_counter' = request_counter + 1
                /\ pc' \in {"login", "maintain", "target"}]_vars

C17_Witness ==
    /\ pc = "loop"
    /\ wait_time = 120
    /\ sent # <<>>
    /\ sent[Len(sent)].kind = "error"

\* C20: a cycle whose fetch failed leaves previous_state as it was at the
\* start of the cycle, also when it dispatches the failure alert; at all
\* times previous_state is the snapshot of the last cycle that extracted
\* one; and a cycle that extracts a snapshot dispatches a slot alert naming
\* every city that is Red in the retained snapshot and Yellow or Green in
\* the new one, however many failed cycles lie in between.
C20_FailedFetchKeepsBaseline ==
    /\ (CycleEnd /\ ~FetchSucceeded) => previous_state = prev_at_start
    /\ previous_state = last_snapshot
    /\ (CycleEnd /\ current_status # NoSnapshot) =>
          \A c \in cities :
              (/\ Get(prev_at_start, c, "unknown") = "red"
               /\ current_status[c] \in {"yellow", "green"})
                  => \E i \in 1..Len(sent) :
                        sent[i].kind = "slot" /\ c \in sent[i].cities

C20_Witness ==
    /\ CycleEnd
    /\ failed_before = 2
    /\ current_status # NoSnapshot
    /\ Get(prev_at_start, "chennai", "unknown") = "red"
    /\ current_status["chennai"] = "green"
    /\ Len(SlotMsgs) = 1

\* some element the structural search selects for the city yields a status
Structural(soup, city) ==
    \E i \in 1..Len(soup), p \in 1..4 :
        Selects(p, soup[i], city) /\ extract_status_from_element(soup[i]) # None

NameInText(soup, city) == \E i \in 1..Len(soup) : In(city, Lower(soup[i].text))

\* occurrences <<element, position, keyword>> of the status keywords in the
\* flattened text of the page
KeywordHits(soup) ==
    {<<h[1], Pos(status_keywords[h[2]][1], Lower(soup[h[1]].text)), h[2]>> :
        h \in {g \in (1..Len(soup)) \X (1..Len(status_keywords)) :
                  In(status_keywords[g[2]][1], Lower(soup[g[1]].text))}}

\* the keyword that occurs first in the text
FirstKeyword(soup) ==
    CHOOSE h \in KeywordHits(soup) : \A g \in KeywordHits(soup) :
        h[1] < g[1] \/ (h[1] = g[1] /\ h[2] <= g[2])

\* C18 (as claimed): for a city without a structural match whose name
\* occurs in the text of the page, the snapshot holds the colour of the
\* status keyword that occurs first in the text; it holds Unknown when no
\* keyword occurs or the name does not occur.
C18_FallbackFirstKeywordInText ==
    pc = "analyzed" /\ html_content.kind # "empty" =>
        \A city \in cities :
            ~Structural(html_content.elems, city) =>
                current_status[city] =
                    IF /\ NameInText(html_content.elems, city)
                       /\ KeywordHits(html_content.elems) # {}
                    THEN status_keywords[FirstKeyword(html_content.elems)[3]][2]
                    ELSE "unknown"

\* the values rule 1a (class tokens), rule 1b (inline style) and rule 1c
\* (status/color attributes) can yield for an element
Colours == {"red", "green", "yellow"}

ClassValues(element) ==
    {c \in Colours : \E i \in 1..Len(element.class) : In(c, Lower(element.class[i]))}

StyleValues(element) ==
    {c \in Colours :
        \/ In(c, Lower(element.style))
        \/ c = "red" /\ (In("#ff0000", Lower(element.style))
                          \/ In("rgb(255,0,0)", Lower(element.style)))
        \/ c = "green" /\ (In("#00ff00", Lower(element.style))
                            \/ In("rgb(0,255,0)", Lower(element.style)))
        \/ c = "yellow" /\ (In("#ffff00", Lower(element.style))
                             \/ In("rgb(255,255,0)", Lower(element.style)))}

AttrValues(element) ==
    {Lower(element.attrs[i][2]) : i \in
        {j \in 1..Len(element.attrs) :
            /\ In("status", Lower(element.attrs[j][1]))
                 \/ In("color", Lower(element.attrs[j][1]))
            /\ ColorIn(Lower(element.attrs[j][2]))}}

\* C19: when the structural search selects for a city some element that
\* yields a status, the snapshot holds a status of such an element and not
\* that of the keyword scan; and an element yields the status of its class
\* tokens if they hold a colour, else that of its inline style if it holds
\* one, else that of its status/color attributes, else none.
C19_StructuralBeforeKeywords ==
    pc = "analyzed" /\ html_content.kind = "html" =>
        LET soup == html_content.elems
        IN  /\ \A city \in cities :
                  Structural(soup, city) =>
                      current_status[city] \in
                          {extract_status_from_element(soup[i]) :
                              i \in {j \in 1..Len(soup) :
                                  /\ \E p \in 1..4 : Selects(p, soup[j], city)
                                  /\ extract_status_from_element(soup[j]) # None}}
            /\ \A i \in 1..Len(soup) :
                  LET status == extract_status_from_element(soup[i])
                  IN  IF ClassValues(soup[i]) # {}
                      THEN status \in ClassValues(soup[i])
                      ELSE IF StyleValues(soup[i]) # {}
                      THEN status \in StyleValues(soup[i])
                      ELSE IF AttrValues(soup[i]) # {}
                      THEN status \in AttrValues(soup[i])
                      ELSE status = None

C19_Witness ==
    /\ pc = "analyzed"
    /\ html_content =
          Html(<<Elem(<<>>, "", "chennai limited", "", <<>>),
                 Elem(<<"chennai-red-slot">>, "", "", "", <<>>)>>)
    /\ current_status["chennai"] = "red"


\* a cycle starts: run_monitor is at the top of its loop (line 526)
CycleStart == pc = "loop"

\* C21: at the start of every cycle consecutive_failures is 0, 1 or 2,
\* after any sequence of cycles with a body, failed cycles and cycles that
\* ended in an error; the value a cycle began with is one of them too, and
\* no step of a cycle leaves the counter at 3 or more.
C21_FailuresBelowThresholdAtCycleStart ==
    /\ CycleStart => consecutive_failures \in 0..(FailureThreshold - 1)
    /\ failures_at_start \in 0..(FailureThreshold - 1)
    /\ consecutive_failures \in 0..(FailureThreshold - 1)

\* the third failed cycle in a row has ended with its alert and the next
\* cycle is about to start
C21_Witness ==
    /\ CycleStart
    /\ Len(FailureMsgs) = 1
    /\ consecutive_failures = 0
    /\ request_counter >= FailureThreshold

\* positions of initialize_session between its call and its return
InInit == {"login", "country", "navigate", "init_return"}

Sites == {"first", "maintain", "redirect", "recovery"}

\* runs of initialize_session in this call of get_page_content from the
\* call site `site`, the one under way included
InitRunsFrom(site) ==
    Cardinality({i \in 1..Len(log) : IsInit(log[i], site)})
        + (IF pc \in InInit /\ init_caller = site THEN 1 ELSE 0)

InitRuns ==
    Cardinality({i \in 1..Len(log) : log[i].op = "initialize_session"})
        + (IF pc \in InInit THEN 1 ELSE 0)

\* GETs of the target page issued so far by this call of get_page_content
\* (liveness check, target, retry after re-initialization, retry of the
\* recovery)
TargetGets == Cardinality({i \in 1..Len(log) : log[i].op = "GET"})

\* how far the call has got: every step of the call moves it forward
Progress ==
    LET stage == CASE pc \in InInit /\ init_caller = "first" -> 0
                   [] pc = "maintain" -> 1
                   [] pc \in InInit /\ init_caller = "maintain" -> 2
                   [] pc = "target" -> 3
                   [] pc \in InInit /\ init_caller = "redirect" -> 4
                   [] pc = "retry" -> 5
                   [] pc \in InInit /\ init_caller = "recovery" -> 6
                   [] pc = "recovery_get" -> 7
                   [] OTHER -> 8
        step == CASE pc = "login" -> 0
                  [] pc = "country" -> 1
                  [] pc = "navigate" -> 2
                  [] pc = "init_return" -> 3
                  [] OTHER -> 0
    IN  4 * stage + step

\* C22: a call of get_page_content runs initialize_session at most 4 times,
\* at most once from each of its call sites (first use, liveness check,
\* redirect detection, transport recovery), and issues at most 4 GETs of
\* the target page; every step of the call moves it forward through a
\* fixed order of positions, so no path retries without bound; and a call
\* under way eventually returns a body or None, given that every HTTP call
\* returns or fails.
C22_CallBoundedAndEnds ==
    /\ [](/\ InitRuns <= 4
          /\ TargetGets <= 4
          /\ \A site \in Sites : InitRunsFrom(site) <= 1
          /\ \A site \in {"liveness", "target", "retry", "recovery"} :
                Cardinality({i \in 1..Len(log) : IsGet(log[i], site)}) <= 1
          /\ Returned => (FetchSucceeded \/ html_content = NoContent))
    /\ [][(pc \in InCall) => (Progress' > Progress)]_vars
    /\ (pc \in InCall) ~> Returned

\* a call that ran initialize_session from all four call sites and issued
\* all four GETs has returned
C22_Witness ==
    /\ Returned
    /\ InitRuns = 4
    /\ TargetGets = 4

\* the step is taken by the monitor that exists (no new IMATSlotMonitor is
\* constructed in it)
SameMonitor == monitors' = monitors

\* C23: on one monitor no step sets is_logged_in, country_selected or
\* session_initialized back to False once it is True, whether an expiry was
\* detected or a re-initialization failed; initialize_session is called
\* from the first-use branch (line 319) only while session_initialized is
\* False, so never again once a run of it has succeeded.
C23_SessionFlagsMonotonic ==
    /\ [][SameMonitor =>
            /\ is_logged_in => is_logged_in'
            /\ country_selected => country_selected'
            /\ session_initialized => session_initialized']_vars
    /\ [][(SameMonitor /\ session_initialized) =>
            ~(init_caller' = "first" /\ init_caller # "first")]_vars
    /\ [](/\ (pc \in {"login", "country", "navigate"} /\ init_caller = "first")
               => ~session_initialized
          /\ \A i \in 1..Len(log) :
                /\ IsInit(log[i], "first") => i = 1
                /\ (log[i].op = "initialize_session" /\ log[i].res = "ok")
                      => session_initialized)

\* with all three flags set, the target GET showed an expiry and the
\* re-initialization failed: the call returned None and the flags are still set
C23_Witness ==
    /\ Returned
    /\ ~FetchSucceeded
    /\ is_logged_in /\ country_selected /\ session_initialized
    /\ \E i \in 1..Len(log) :
          /\ IsGet(log[i], "target") /\ SawExpiry(log[i])
          /\ i < Len(log)
          /\ IsInit(log[i + 1], "redirect") /\ log[i + 1].res = "failed"

\* C24 (as claimed): when get_page_content returns a body, the response the
\* body comes from -- the last GET of the call -- did not end on a final
\* URL that holds "login", "signin" or "country", whether it is the GET of
\* the target page, the retried GET after re-initialization or the retried
\* GET of the recovery.
C24_ReturnedBodyNotFromExpiredResponse ==
    (Returned /\ FetchSucceeded) =>
        /\ log # <<>>
        /\ log[Len(log)].op = "GET"
        /\ log[Len(log)].res = "ok"
        /\ ~log[Len(log)].expired
=============================================================================
